---- MODULE Spec2Model ----
(***************************************************************************)
(* A model of names.py: the name decomposer, the case converter, the       *)
(* matcher, the BNF expansion engine, the description merger and the       *)
(* registry.  A Python str is a sequence of one-character strings, so      *)
(* that splitting, searching, replacing and case conversion are computed   *)
(* character by character as the code computes them.                       *)
(***************************************************************************)
EXTENDS Integers, Sequences, FiniteSets, TLC

VARIABLES
    pc,         \* position of the call or of the run
    arg,        \* the arguments of the function under call
    ret,        \* what the call returned (or the exception it raised)
    named,      \* registry: the set of registered names (keys of named)
    unitd,      \* units table, name -> units
    shortd,     \* short description table
    longd,      \* long description table
    partnamed,  \* part descriptions of plain description rows
    ruled,      \* rule field of plain description rows
    g,          \* process_rules: the merged rule table
    dg,         \* read_description: its local rule table
    rows,       \* read_description: the rows of the file being read
    line,       \* read_description: number of rows consumed
    srcs,       \* process_rules: number of sources processed
    todo,       \* process_rules: sorted expanded names not yet resolved
    written     \* process_rules: rows written to all_names.csv

callVars == <<pc, arg, ret>>
tableVars == <<named, unitd, shortd, longd, partnamed, ruled>>
runVars == <<g, dg, rows, line, srcs, todo, written>>
vars == <<pc, arg, ret, named, unitd, shortd, longd, partnamed, ruled,
          g, dg, rows, line, srcs, todo, written>>

----------------------------------------------------------------------------
(* Characters and strings *)

Upper == {"A","B","C","D","E","F","G","H","I","J","K","L","M",
          "N","O","P","Q","R","S","T","U","V","W","X","Y","Z"}
Lower == {"a","b","c","d","e","f","g","h","i","j","k","l","m",
          "n","o","p","q","r","s","t","u","v","w","x","y","z"}
Digit == {"0","1","2","3","4","5","6","7","8","9"}

UpperSeq == <<"A","B","C","D","E","F","G","H","I","J","K","L","M",
              "N","O","P","Q","R","S","T","U","V","W","X","Y","Z">>
LowerSeq == <<"a","b","c","d","e","f","g","h","i","j","k","l","m",
              "n","o","p","q","r","s","t","u","v","w","x","y","z">>
DigitSeq == <<"0","1","2","3","4","5","6","7","8","9">>

\* the position of c in sequence q (c occurs in q)
IndexIn(q, c) == CHOOSE i \in 1..Len(q) : q[i] = c

\* str.upper() and str.lower() on one character
upper(c) == IF c \in Lower THEN UpperSeq[IndexIn(LowerSeq, c)] ELSE c
lower(c) == IF c \in Upper THEN LowerSeq[IndexIn(UpperSeq, c)] ELSE c

\* all strings over alphabet A of length at most n
Strs(A, n) == UNION {[1..k -> A] : k \in 0..n}

\* ''.join(l) for a list l of strings
RECURSIVE join(_)
join(l) == IF l = <<>> THEN <<>> ELSE Head(l) \o join(Tail(l))

\* sep.join(l) for a one-character separator
RECURSIVE join_sep(_, _)
join_sep(l, sep) ==
    IF l = <<>> THEN <<>>
    ELSE IF Len(l) = 1 THEN Head(l)
    ELSE Head(l) \o <<sep>> \o join_sep(Tail(l), sep)

\* s.find(sub): the first index (1-based) at which sub occurs in s, 0 if none
occurs_at(s, sub, i) ==
    /\ i + Len(sub) - 1 <= Len(s)
    /\ \A k \in 1..Len(sub) : s[i + k - 1] = sub[k]
find(s, sub) ==
    IF \E i \in 1..(Len(s) + 1) : occurs_at(s, sub, i)
    THEN CHOOSE i \in 1..(Len(s) + 1) :
            /\ occurs_at(s, sub, i)
            /\ \A j \in 1..(i - 1) : ~occurs_at(s, sub, j)
    ELSE 0

\* s.split(sep) for a non-empty separator: always at least one piece
RECURSIVE split(_, _)
split(s, sep) ==
    LET i == find(s, sep) IN
    IF i = 0 THEN <<s>>
    ELSE <<SubSeq(s, 1, i - 1)>> \o split(SubSeq(s, i + Len(sep), Len(s)), sep)

\* s.replace(old, new) without the count: every occurrence, left to right
RECURSIVE replace_all(_, _, _)
replace_all(s, old, new) ==
    LET i == find(s, old) IN
    IF i = 0 \/ old = <<>> THEN s
    ELSE SubSeq(s, 1, i - 1) \o new
         \o replace_all(SubSeq(s, i + Len(old), Len(s)), old, new)

\* s.replace(old, new, 1): the first occurrence only
replace_first(s, old, new) ==
    LET i == find(s, old) IN
    IF i = 0 THEN s
    ELSE SubSeq(s, 1, i - 1) \o new \o SubSeq(s, i + Len(old), Len(s))

----------------------------------------------------------------------------
(* Name decomposer *)

\* the end of the longest run of characters of C that starts after index j
RECURSIVE run_end(_, _, _)
run_end(s, j, C) ==
    IF j + 1 <= Len(s) /\ s[j + 1] \in C THEN run_end(s, j + 1, C) ELSE j

\* the substitution with its group closed too early, ([A-Z][a-z]*)[0-9a-z]*:
\* the digits and letters after the first run are matched and not put back
RECURSIVE re_sub_short_group(_, _)
re_sub_short_group(nm, i) ==
    IF i > Len(nm) THEN <<>>
    ELSE IF nm[i] \in Upper
         THEN LET e == run_end(nm, run_end(nm, i, Lower), Lower \cup Digit) IN
              <<"_">> \o SubSeq(nm, i, run_end(nm, i, Lower)) \o <<"_">>
              \o re_sub_short_group(nm, e + 1)
         ELSE <<nm[i]>> \o re_sub_short_group(nm, i + 1)

\* re.sub(r'([A-Z][a-z]*[0-9a-z]*)', '_\1_', nm), scanning from index i
RECURSIVE re_sub(_, _)
re_sub(nm, i) ==
    IF i > Len(nm) THEN <<>>
    ELSE IF nm[i] \in Upper
         THEN LET e == run_end(nm, run_end(nm, i, Lower), Lower \cup Digit) IN
              <<"_">> \o SubSeq(nm, i, e) \o <<"_">> \o re_sub(nm, e + 1)
         ELSE <<nm[i]>> \o re_sub(nm, i + 1)

parts(nm) ==
    SelectSeq(split(re_sub(nm, 1), <<"_">>), LAMBDA pn : pn # <<>>)

parts_join(pnl) == join(pnl)

\* device(nm) is parts(nm)[0]: IndexError when nm has no part
device_raises(nm) == parts(nm) = <<>>
device(nm) == parts(nm)[1]

\* str(n) for n >= 0
RECURSIVE str(_)
str(n) ==
    IF n < 10 THEN <<DigitSeq[n + 1]>>
    ELSE str(n \div 10) \o <<DigitSeq[(n % 10) + 1]>>

\* int(s) for a string of decimal digits
RECURSIVE int(_)
int(s) ==
    IF s = <<>> THEN 0
    ELSE 10 * int(SubSeq(s, 1, Len(s) - 1)) + (IndexIn(DigitSeq, s[Len(s)]) - 1)

\* the indices of the digits of nd, ascending
digit_indices(nd) == SelectSeq([i \in 1..Len(nd) |-> i], LAMBDA i : nd[i] \in Digit)

\* device_number raises when nm has no part (IndexError), its device has no
\* digit (IndexError), or a non-digit follows the first digit (ValueError)
device_number_raises(nm) ==
    IF device_raises(nm) THEN TRUE
    ELSE IF digit_indices(device(nm)) = <<>> THEN TRUE
    ELSE LET nd == device(nm)
             t == SubSeq(device(nd), digit_indices(nd)[1], Len(device(nd)))
         IN  \E i \in 1..Len(t) : t[i] \notin Digit

\* device_number reading from digits[-1], the last digit, on
device_number_last_digit(nm) ==
    LET nd == device(nm)
        digits == digit_indices(nd)
    IN  int(SubSeq(device(nd), digits[Len(digits)], Len(device(nd))))

device_number(nm) ==
    LET nd == device(nm)
        digits == digit_indices(nd)
    IN  int(SubSeq(device(nd), digits[1], Len(device(nd))))

\* parts(nm)[-1] == 'Pa': IndexError when nm has no part
is_parameter_raises(nm) == parts(nm) = <<>>
is_parameter(nm) == parts(nm)[Len(parts(nm))] = <<"P", "a">>

\* kind(nm): IndexError when nm has no part, or is the lone part 'Pa'
kind_raises(nm) ==
    IF is_parameter_raises(nm) THEN TRUE
    ELSE is_parameter(nm) /\ Len(parts(nm)) < 2
\* kind without its parameter branch: always the last part
kind_last_part(nm) == parts(nm)[Len(parts(nm))]

kind(nm) ==
    IF is_parameter(nm)
    THEN parts(nm)[Len(parts(nm)) - 1]
    ELSE parts(nm)[Len(parts(nm))]

----------------------------------------------------------------------------
(* Case converter *)

lower_str(s) == [i \in 1..Len(s) |-> lower(s[i])]

name_to_lower(nm) == lower_str(join_sep(parts(nm), "_"))

\* lower_to_name's loop from index i with flag u and accumulated r
RECURSIVE lower_to_name_loop(_, _, _, _)
lower_to_name_loop(nm, i, u, r) ==
    IF i > Len(nm) THEN r
    ELSE IF nm[i] = "_" THEN lower_to_name_loop(nm, i + 1, TRUE, r)
    ELSE lower_to_name_loop(nm, i + 1, FALSE,
                            r \o <<IF u THEN upper(nm[i]) ELSE nm[i]>>)

\* lower_to_name with u starting False: the first character is not raised
lower_to_name_u_false(nm) == lower_to_name_loop(nm, 1, FALSE, <<>>)

lower_to_name(nm) == lower_to_name_loop(nm, 1, TRUE, <<>>)

----------------------------------------------------------------------------
(* Matcher *)

\* fnmatch.translate's scan for the ']' that closes the '[' at index j of
\* pat: a leading '!' and then a leading ']' belong to the set.  0 if none.
RECURSIVE seek_close(_, _)
seek_close(pat, k) ==
    IF k > Len(pat) THEN 0
    ELSE IF pat[k] = "]" THEN k
    ELSE seek_close(pat, k + 1)

class_close(pat, j) ==
    LET j1 == IF j + 1 <= Len(pat) /\ pat[j + 1] = "!" THEN j + 2 ELSE j + 1
        j2 == IF j1 <= Len(pat) /\ pat[j1] = "]" THEN j1 + 1 ELSE j1
    IN  seek_close(pat, j2)

\* does character c belong to the set written between '[' at j and ']' at k
in_class(pat, j, k, c) ==
    LET stuff == SubSeq(pat, j + 1, k - 1) IN
    IF stuff[1] = "!"
    THEN \A m \in 2..Len(stuff) : stuff[m] # c
    ELSE \E m \in 1..Len(stuff) : stuff[m] = c

\* does n from index i on match the glob pat from index j on
RECURSIVE glob(_, _, _, _)
glob(n, i, pat, j) ==
    IF j > Len(pat) THEN i > Len(n)
    ELSE IF pat[j] = "*"
         THEN \/ glob(n, i, pat, j + 1)
              \/ i <= Len(n) /\ glob(n, i + 1, pat, j)
    ELSE IF pat[j] = "?"
         THEN i <= Len(n) /\ glob(n, i + 1, pat, j + 1)
    ELSE IF pat[j] = "[" /\ class_close(pat, j) # 0
         THEN /\ i <= Len(n)
              /\ in_class(pat, j, class_close(pat, j), n[i])
              /\ glob(n, i + 1, pat, class_close(pat, j) + 1)
    ELSE i <= Len(n) /\ n[i] = pat[j] /\ glob(n, i + 1, pat, j + 1)

fnmatchcase(n, p) == glob(n, 1, p, 1)

\* match with the empty alternatives of pat left out
match_skip_empty(n, pat) ==
    LET ps == split(pat, <<"|">>) IN
    \E k \in 1..Len(ps) : ps[k] # <<>> /\ fnmatchcase(n, ps[k])

match(n, pat) ==
    LET ps == split(pat, <<"|">>) IN
    \E k \in 1..Len(ps) : fnmatchcase(n, ps[k])

----------------------------------------------------------------------------
(* Grammar engine *)

Space == {" ", "\n"}

RECURSIVE lstrip(_)
lstrip(s) == IF s # <<>> /\ Head(s) \in Space THEN lstrip(Tail(s)) ELSE s

RECURSIVE rstrip(_)
rstrip(s) ==
    IF s # <<>> /\ s[Len(s)] \in Space
    THEN rstrip(SubSeq(s, 1, Len(s) - 1)) ELSE s

strip(s) == rstrip(lstrip(s))

\* s.split(sep, maxsplit)
RECURSIVE split_max(_, _, _)
split_max(s, sep, maxsplit) ==
    LET i == find(s, sep) IN
    IF i = 0 \/ maxsplit = 0 THEN <<s>>
    ELSE <<SubSeq(s, 1, i - 1)>>
         \o split_max(SubSeq(s, i + Len(sep), Len(s)), sep, maxsplit - 1)

\* d[k] = v on a dict
put(d, k, v) == [x \in DOMAIN d \cup {k} |-> IF x = k THEN v ELSE d[x]]

\* {**a, **b}
merge(a, b) == [x \in DOMAIN a \cup DOMAIN b |-> IF x \in DOMAIN b THEN b[x] ELSE a[x]]

EmptyDict == [x \in {} |-> <<>>]

Assign == <<":", ":", "=">>

\* bnf_to_rules' loop over the lines ls from index i with table d
RECURSIVE bnf_loop(_, _, _)
bnf_loop(ls, i, d) ==
    IF i > Len(ls) THEN d
    ELSE LET l == strip(ls[i])
             f == split_max(l, Assign, 2)
         IN  IF l # <<>> /\ l[1] # "#" /\ Len(f) = 2
             THEN bnf_loop(ls, i + 1, put(d, strip(f[1]), strip(f[2])))
             ELSE bnf_loop(ls, i + 1, d)

bnf_to_rules(grammar) == bnf_loop(split(grammar, <<"\n">>), 1, EmptyDict)

finished(s) == find(s, <<"<">>) = 0 /\ find(s, <<"|">>) = 0

\* the strings expand_rules recurses into from an unfinished s: the
\* u = s.replace(lhs, c, 1) with u != s
expansions(rules, s) ==
    UNION {{replace_first(s, lhs, split(rules[lhs], <<"|">>)[k]) :
               k \in 1..Len(split(rules[lhs], <<"|">>))} : lhs \in DOMAIN rules}
    \ {s}

\* the recursion of expand_rules from s is at most d calls deep
RECURSIVE terminates(_, _, _)
terminates(rules, s, d) ==
    \/ finished(s)
    \/ d > 0 /\ \A u \in expansions(rules, s) : terminates(rules, u, d - 1)

RECURSIVE expand_rules(_, _)
expand_rules(rules, s) ==
    IF finished(s) THEN {s}
    ELSE UNION {expand_rules(rules, u) : u \in expansions(rules, s)}

\* the order of Python's str comparison: by code point, a prefix first
CodeOrder == <<"\n", " ", "!", "#", "*", "-">> \o DigitSeq \o <<":", "<", "=", ">", "?">>
             \o UpperSeq \o <<"[", "]", "_">> \o LowerSeq \o <<"|">>
ord(c) == IndexIn(CodeOrder, c)

RECURSIVE str_lt(_, _)
str_lt(a, b) ==
    IF b = <<>> THEN FALSE
    ELSE IF a = <<>> THEN TRUE
    ELSE IF Head(a) = Head(b) THEN str_lt(Tail(a), Tail(b))
    ELSE ord(Head(a)) < ord(Head(b))

\* sorted(S) for a set (or the keys of a dict) of strings
RECURSIVE sorted(_)
sorted(S) ==
    IF S = {} THEN <<>>
    ELSE LET m == CHOOSE x \in S : \A y \in S \ {x} : str_lt(x, y)
         IN  <<m>> \o sorted(S \ {m})

expand_bnf(grammar, start) == sorted(expand_rules(bnf_to_rules(grammar), start))

----------------------------------------------------------------------------
(* Calls of the pure functions.  The tables and the run do not move. *)

NoRet == <<>>

IdleTables ==
    /\ named = {}
    /\ unitd = EmptyDict
    /\ shortd = EmptyDict
    /\ longd = EmptyDict
    /\ partnamed = EmptyDict
    /\ ruled = EmptyDict

IdleRun ==
    /\ g = EmptyDict
    /\ dg = EmptyDict
    /\ rows = <<>>
    /\ line = 0
    /\ srcs = 0
    /\ todo = <<>>
    /\ written = <<>>

Pa == <<"P", "a">>

\* longest name drawn as an input of the decomposer and the case converter
MaxNameLen == 4
NameChars == {"A", "P", "a", "1", "_", "-"}

InitNames ==
    /\ pc = "call"
    /\ arg \in Strs(NameChars, MaxNameLen)
    /\ ret = NoRet
    /\ IdleTables /\ IdleRun

\* test_parts_identity: parts_join(parts(nm))
CallParts ==
    /\ pc = "call"
    /\ pc' = "parts"
    /\ ret' = [parts |-> parts(arg), joined |-> parts_join(parts(arg))]
    /\ UNCHANGED <<arg, tableVars, runVars>>

\* test_device's last two lines: is_parameter(nm + 'Pa'), kind(nm + 'Pa'), kind(nm)
CallKind ==
    /\ pc = "call"
    /\ pc' = "kind"
    /\ ret' = [raised    |-> kind_raises(arg),
               kind      |-> IF kind_raises(arg) THEN <<>> ELSE kind(arg),
               pa_param  |-> is_parameter(arg \o Pa),
               pa_raised |-> kind_raises(arg \o Pa),
               pa_kind   |-> IF kind_raises(arg \o Pa) THEN <<>> ELSE kind(arg \o Pa)]
    /\ UNCHANGED <<arg, tableVars, runVars>>

\* test_name_to_lower: lower_to_name(name_to_lower(nm))
CallCase ==
    /\ pc = "call"
    /\ pc' = "case"
    /\ ret' = [lowered |-> name_to_lower(arg),
               back    |-> lower_to_name(name_to_lower(arg))]
    /\ UNCHANGED <<arg, tableVars, runVars>>

NextNames == CallParts \/ CallKind \/ CallCase

SpecNames == InitNames /\ [][NextNames]_vars

----------------------------------------------------------------------------
(* Calls of device and device_number on prefix + str(n) + suffix *)

\* the largest device number test_device_number and test_device draw
MaxDeviceNumber == 100
\* the most letters after the prefix's capital, and the most of the suffix
MaxAffixLen == 2

\* prefixes matching [A-Z][a-z]* and suffixes matching [A-Z_]*
Prefixes == {<<"G">> \o t : t \in Strs({"e"}, MaxAffixLen)}
Suffixes == Strs({"P", "_"}, MaxAffixLen)

InitDevice ==
    /\ pc = "call"
    /\ arg \in [p : Prefixes, n : 1..MaxDeviceNumber, s : Suffixes]
    /\ ret = NoRet
    /\ IdleTables /\ IdleRun

\* test_device_number and test_device: nm = p + str(n) + s
CallDevice ==
    /\ pc = "call"
    /\ pc' = "device"
    /\ LET nm == arg.p \o str(arg.n) \o arg.s IN
       ret' = [nm     |-> nm,
               device |-> device(nm),
               raised |-> device_number_raises(nm),
               number |-> IF device_number_raises(nm) THEN -1 ELSE device_number(nm)]
    /\ UNCHANGED <<arg, tableVars, runVars>>

NextDevice == CallDevice

SpecDevice == InitDevice /\ [][NextDevice]_vars

----------------------------------------------------------------------------
(* Calls of match, as test_match makes them *)

\* longest text t drawn for the matcher
MaxTextLen == 2
GlobChars == {"a", "x", "*", "?", "|", "[", "]", "!"}
Star == <<"*">>

InitMatch ==
    /\ pc = "call"
    /\ arg \in [s : Strs({"a", "_"}, 1), t : Strs(GlobChars, MaxTextLen)]
    /\ ret = NoRet
    /\ IdleTables /\ IdleRun

\* test_match
CallMatch ==
    /\ pc = "call"
    /\ pc' = "matched"
    /\ ret' = [s_s  |-> match(arg.s, arg.s),
               s_st |-> match(arg.s, arg.s \o <<"|">> \o arg.t),
               s_ts |-> match(arg.s, arg.t \o <<"|">> \o arg.s),
               t_star |-> match(arg.t, Star),
               t_tx |-> match(arg.t, arg.t \o <<"x">>)]
    /\ UNCHANGED <<arg, tableVars, runVars>>

NextMatch == CallMatch

SpecMatch == InitMatch /\ [][NextMatch]_vars

----------------------------------------------------------------------------
(* Registry *)

bigname_raises(nm) == nm = <<>>
bigname(nm) == nm[1] \in Upper

\* the filter f of names(): does its evaluation on v raise IndexError
\* (device of a name without a part, bigname of the empty name)
f_raises(v, only, excludes, device_pat, onlybig) ==
    /\ match(v, only)
    /\ ~match(v, excludes)
    /\ IF device_raises(v) THEN TRUE
       ELSE match(device(v), device_pat) /\ onlybig /\ bigname_raises(v)

f(v, only, excludes, device_pat, onlybig) ==
    /\ match(v, only)
    /\ ~match(v, excludes)
    /\ match(device(v), device_pat)
    /\ (IF onlybig THEN bigname(v) ELSE TRUE)

names_raises(only, excludes, device_pat, onlybig) ==
    \E v \in named : f_raises(v, only, excludes, device_pat, onlybig)

names(only, excludes, device_pat, onlybig) ==
    sorted({v \in named : f(v, only, excludes, device_pat, onlybig)})

\* the names, units, descriptions and query arguments drawn
RegNames == {<<>>, <<"A">>, <<"A", "1", "P">>, <<"_">>, <<"p">>}
KW == <<"k", "W">>
OnlyPatterns == {Star, <<"A", "*">>}
ExcludePatterns == {<<>>, <<"A">>}

InitRegistry ==
    /\ pc = "cleared"
    /\ arg = NoRet
    /\ ret = NoRet
    /\ IdleTables /\ IdleRun

clear_names ==
    /\ pc' = "cleared"
    /\ arg' = NoRet
    /\ ret' = NoRet
    /\ named' = {}
    /\ unitd' = EmptyDict
    /\ shortd' = EmptyDict
    /\ longd' = EmptyDict
    /\ partnamed' = EmptyDict
    /\ ruled' = EmptyDict
    /\ UNCHANGED runVars

\* name(nm, un, sh, lo): what it does to the tables
name(nm, un, sh, lo) ==
    /\ named' = named \cup {nm}
    /\ unitd' = put(unitd, nm, un)
    /\ shortd' = put(shortd, nm, sh)
    /\ longd' = put(longd, nm, lo)

\* a call of name(nm, un, sh, lo)
CallName(nm, un, sh, lo) ==
    /\ pc' = "named"
    /\ arg' = nm
    /\ ret' = NoRet
    /\ name(nm, un, sh, lo)
    /\ UNCHANGED <<partnamed, ruled, runVars>>

\* names(only, excludes, device_pat, onlybig)
CallNames(only, excludes, device_pat, onlybig) ==
    /\ pc' = "queried"
    /\ arg' = [only |-> only, excludes |-> excludes,
               device_pat |-> device_pat, onlybig |-> onlybig]
    /\ ret' = [raised |-> names_raises(only, excludes, device_pat, onlybig),
               names  |-> IF names_raises(only, excludes, device_pat, onlybig)
                          THEN <<>>
                          ELSE names(only, excludes, device_pat, onlybig)]
    /\ UNCHANGED <<tableVars, runVars>>

NextRegistry ==
    \/ clear_names
    \/ \E nm \in RegNames : CallName(nm, KW, nm, <<>>)
    \/ \E only \in OnlyPatterns, excludes \in ExcludePatterns, onlybig \in BOOLEAN :
          CallNames(only, excludes, Star, onlybig)

SpecRegistry == InitRegistry /\ [][NextRegistry]_vars

----------------------------------------------------------------------------
(* Calls of expand_bnf *)

\* most lines of a grammar text drawn
MaxLines == 2
\* deepest recursion of expand_rules followed; a deeper one counts as endless
MaxDepth == 6

NT_s == <<"<", "s", ">">>
NT_t == <<"<", "t", ">">>

LhsSet == {NT_s, NT_t, <<"a">>}
RhsSet == {<<>>, <<"a">>, <<"a", "|", "b">>, NT_t, <<"a">> \o NT_t,
           NT_t \o <<"|", "b">>, NT_t \o NT_t, NT_s}

\* the lines a grammar text is drawn from: rules, a comment, a line with two
\* '::=' and a rule with blanks around it
GrammarLines ==
    {l \o <<" ">> \o Assign \o <<" ">> \o r : l \in LhsSet, r \in RhsSet}
    \cup {<<"#", " ">> \o NT_s \o Assign \o <<"b">>,
          NT_s \o Assign \o <<"a">> \o Assign \o <<"b">>,
          <<" ">> \o NT_t \o Assign \o <<"b", " ">>}

GrammarTexts ==
    {join_sep(ls, "\n") : ls \in UNION {[1..k -> GrammarLines] : k \in 0..MaxLines}}

Starts == {NT_s, <<"a">>}

InitExpand ==
    /\ pc = "call"
    /\ arg \in [grammar : GrammarTexts, start : Starts]
    /\ ret = NoRet
    /\ IdleTables /\ IdleRun

\* expand_bnf(grammar, start) returns
CallExpandBnf ==
    /\ pc = "call"
    /\ terminates(bnf_to_rules(arg.grammar), arg.start, MaxDepth)
    /\ pc' = "expanded"
    /\ ret' = expand_bnf(arg.grammar, arg.start)
    /\ UNCHANGED <<arg, tableVars, runVars>>

\* expand_bnf(grammar, start) recurses without end (RecursionError)
CallExpandBnfEndless ==
    /\ pc = "call"
    /\ ~terminates(bnf_to_rules(arg.grammar), arg.start, MaxDepth)
    /\ pc' = "endless"
    /\ UNCHANGED <<arg, ret, tableVars, runVars>>

NextExpand == CallExpandBnf \/ CallExpandBnfEndless

SpecExpand == InitExpand /\ [][NextExpand]_vars

----------------------------------------------------------------------------
(* Description merger: read_description, one row of the file at a step *)

NT_Names == <<"<", "N", "a", "m", "e", "s", ">">>
Header == << <<"N", "a", "m", "e">>, <<"R", "u", "l", "e">>, <<"U", "n", "i", "t", "s">>,
             <<"S", "h", "o", "r", "t">>, <<"L", "o", "n", "g">> >>

\* a row of four columns gets an empty fifth
with_long(row) == IF Len(row) = 4 THEN Append(row, <<>>) ELSE row

\* a grammar rule row whose '|' branch assigns instead of appending
production_overwrite(d, nm, rl) ==
    IF rl # <<>> /\ rl[1] = "|"
    THEN put(d, nm, Tail(rl))
    ELSE put(d, nm, rl)

\* a grammar rule row: nm holds a '<'
production(d, nm, rl) ==
    IF rl # <<>> /\ rl[1] = "|"
    THEN IF nm \notin DOMAIN d \/ d[nm] = <<>>
         THEN put(d, nm, Tail(rl))
         ELSE put(d, nm, d[nm] \o rl)
    ELSE put(d, nm, rl)

\* a new rule row: rl holds a '<'
reference(d, nm, rl) ==
    IF rl \in DOMAIN d
    THEN put(d, rl, d[rl] \o <<"|">> \o nm)
    ELSE put(d, rl, nm)

is_comment(nm) == Len(nm) > 0 /\ nm[1] = "#"
has_lt(s) == find(s, <<"<">>) # 0

\* the body of read_description's loop for the next row of the file
ReadRow ==
    /\ pc = "reading"
    /\ line < Len(rows)
    /\ line' = line + 1
    /\ LET row == with_long(rows[line + 1])
           nm == strip(row[1])
           rl == strip(row[2])
           un == strip(row[3])
           sh == strip(row[4])
           lo == strip(row[5])
       IN  IF Len(row) = 0
           THEN UNCHANGED <<pc, dg, tableVars>>
           ELSE IF Len(row) # 5
           THEN pc' = "exit" /\ UNCHANGED <<dg, tableVars>>
           ELSE IF line' = 1
           THEN UNCHANGED <<pc, dg, tableVars>>
           ELSE /\ pc' = pc
                /\ dg' = IF is_comment(nm) THEN dg
                         ELSE IF has_lt(nm) THEN production(dg, nm, rl)
                         ELSE IF has_lt(rl) THEN reference(dg, nm, rl)
                         ELSE dg
                /\ IF ~is_comment(nm) /\ ~has_lt(nm) /\ ~has_lt(rl)
                   THEN /\ partnamed' = put(partnamed, nm, strip(nm))
                        /\ ruled' = put(ruled, nm, strip(rl))
                   ELSE UNCHANGED <<partnamed, ruled>>
                /\ unitd' = IF un # <<>> THEN put(unitd, nm, un) ELSE unitd
                /\ shortd' = IF sh # <<>> THEN put(shortd, nm, sh) ELSE shortd
                /\ longd' = IF lo # <<>> THEN put(longd, nm, lo) ELSE longd
                /\ UNCHANGED named
    /\ UNCHANGED <<arg, ret, g, rows, srcs, todo, written>>

\* read_description returns its table, and process_rules merges it:
\* g = {**g, **read_description(rule)}
ReturnDescription ==
    /\ pc = "reading"
    /\ line = Len(rows)
    /\ pc' = "sources"
    /\ g' = merge(g, dg)
    /\ srcs' = srcs + 1
    /\ UNCHANGED <<arg, ret, tableVars, dg, rows, line, todo, written>>

\* most rows after the header of a description file drawn for read_description
MaxRows == 3

V == <<"V">>
Row_A == <<NT_Names, <<"A">>, <<>>, <<>>, <<>>>>
Row_OrB == <<NT_Names \o <<" ">>, <<" ", "|", "B">>, <<>>, <<>>, <<>>>>
Row_Empty == <<NT_Names, <<>>, <<>>, <<>>, <<>>>>
Row_OrEmpty == <<NT_Names, <<"|">>, <<>>, <<>>, <<>>>>
Row_RefA == <<<<"A">>, NT_Names, KW, <<"a">>>>
Row_PlainB == <<<<"B">>, <<"b">>, V, <<>>, <<"l">>>>
Row_Blank == <<>>
Row_Comment == <<<<"#", "c">>, <<>>, <<>>, <<>>, <<>>>>
Row_Short == <<<<"x">>, <<"y">>, <<"z">>>>

RowSet == {Row_A, Row_OrB, Row_Empty, Row_OrEmpty, Row_RefA, Row_PlainB,
           Row_Blank, Row_Comment, Row_Short}

\* the files of a header and at most n rows of R
CsvFiles(R, n) == {<<Header>> \o rs : rs \in UNION {[1..k -> R] : k \in 0..n}}

InitRead ==
    /\ pc = "reading"
    /\ arg = NoRet
    /\ ret = NoRet
    /\ IdleTables
    /\ g = EmptyDict
    /\ dg = EmptyDict
    /\ rows \in CsvFiles(RowSet, MaxRows)
    /\ line = 0
    /\ srcs = 0
    /\ todo = <<>>
    /\ written = <<>>

NextRead == ReadRow \/ ReturnDescription

SpecRead == InitRead /\ [][NextRead]_vars

----------------------------------------------------------------------------
(* A run: process_rules *)

units_raises(nm) ==
    IF kind_raises(nm) THEN TRUE ELSE kind(nm) \notin DOMAIN unitd
units(nm) == unitd[kind(nm)]

short(nm) ==
    join_sep([k \in 1..Len(parts(nm)) |->
                 IF parts(nm)[k] \in DOMAIN shortd THEN shortd[parts(nm)[k]]
                 ELSE parts(nm)[k]], " ")

long(nm) == IF nm \in DOMAIN longd THEN longd[nm] ELSE <<>>

\* most sources of a run, and most rows after the header of its description files
MaxSources == 2
MaxRunRows == 2

TxtPattern == <<"*", ".", "t", "x", "t">>
CsvPattern == <<"*", ".", "c", "s", "v">>

RunTexts == {NT_Names \o <<" ">> \o Assign \o <<" ", "A">> \o NT_Names,
             NT_Names \o <<" ">> \o Assign \o <<" ", "A">>,
             NT_Names \o <<" ">> \o Assign \o <<" ", "A", "|", "B">>,
             NT_Names \o <<" ">> \o Assign \o <<" ", "|", "A">>}
RunRowSet == {Row_A, Row_OrB, Row_Empty, Row_RefA, Row_PlainB, Row_Short}

Sources ==
    {[name |-> <<"g", ".", "t", "x", "t">>, text |-> t, rows |-> <<>>] : t \in RunTexts}
    \cup {[name |-> <<"d", ".", "c", "s", "v">>, text |-> <<>>, rows |-> r] :
             r \in CsvFiles(RunRowSet, MaxRunRows)}
    \cup {[name |-> <<"r", ".", "m", "d">>, text |-> <<>>, rows |-> <<>>]}

InitRun ==
    /\ pc = "sources"
    /\ arg = NoRet
    /\ ret = NoRet
    /\ IdleTables /\ IdleRun

\* a grammar file: g = {**g, **bnf_to_rules(open(rule).read())}
ProcessTxt(src) ==
    /\ pc = "sources"
    /\ srcs < MaxSources
    /\ match(src.name, TxtPattern)
    /\ g' = merge(g, bnf_to_rules(src.text))
    /\ srcs' = srcs + 1
    /\ UNCHANGED <<callVars, tableVars, dg, rows, line, todo, written>>

\* a description file: read_description opens it with an empty table
OpenCsv(src) ==
    /\ pc = "sources"
    /\ srcs < MaxSources
    /\ ~match(src.name, TxtPattern)
    /\ match(src.name, CsvPattern)
    /\ pc' = "reading"
    /\ dg' = EmptyDict
    /\ rows' = src.rows
    /\ line' = 0
    /\ UNCHANGED <<arg, ret, tableVars, g, srcs, todo, written>>

\* any other file: exit(101)
RejectSource(src) ==
    /\ pc = "sources"
    /\ srcs < MaxSources
    /\ ~match(src.name, TxtPattern)
    /\ ~match(src.name, CsvPattern)
    /\ pc' = "exit"
    /\ UNCHANGED <<arg, ret, tableVars, runVars>>

\* after the last source: names = expand_rules(g, '<Names>'), the output
\* file is opened and its header written
Expand ==
    /\ pc = "sources"
    /\ terminates(g, NT_Names, MaxDepth)
    /\ pc' = "resolve"
    /\ todo' = sorted(expand_rules(g, NT_Names))
    /\ written' = <<<<Header[1], Header[3], Header[4], Header[5]>>>>
    /\ UNCHANGED <<arg, ret, tableVars, g, dg, rows, line, srcs>>

\* the expansion recurses without end (RecursionError)
ExpandEndless ==
    /\ pc = "sources"
    /\ ~terminates(g, NT_Names, MaxDepth)
    /\ pc' = "endless"
    /\ UNCHANGED <<arg, ret, tableVars, runVars>>

\* the loop body for the next name n of sorted(names): units(n) raises
\* (IndexError from kind, KeyError from unitd) and the exception leaves
\* process_rules
ResolveRaises ==
    /\ pc = "resolve"
    /\ todo # <<>>
    /\ units_raises(Head(todo))
    /\ pc' = "raised"
    /\ UNCHANGED <<arg, ret, tableVars, runVars>>

\* the loop body for the next name n: name(n, ...) and cw.writerow([n, ...])
Resolve ==
    /\ pc = "resolve"
    /\ todo # <<>>
    /\ ~units_raises(Head(todo))
    /\ LET n == Head(todo) IN
       /\ name(n, units(n), short(n), long(n))
       /\ written' = Append(written, <<n, units(n), short(n), long(n)>>)
    /\ todo' = Tail(todo)
    /\ UNCHANGED <<callVars, partnamed, ruled, g, dg, rows, line, srcs>>

\* the loop is over: cfd.close()
Finish ==
    /\ pc = "resolve"
    /\ todo = <<>>
    /\ pc' = "done"
    /\ UNCHANGED <<arg, ret, tableVars, runVars>>

NextRun ==
    \/ \E src \in Sources : ProcessTxt(src)
    \/ \E src \in Sources : OpenCsv(src)
    \/ \E src \in Sources : RejectSource(src)
    \/ ReadRow
    \/ ReturnDescription
    \/ Expand
    \/ ExpandEndless
    \/ ResolveRaises
    \/ Resolve
    \/ Finish

SpecRun == InitRun /\ [][NextRun]_vars

----------------------------------------------------------------------------
(* Claims about the name decomposer and the case converter (SpecNames) *)

\* C2: for every string without an underscore (the empty string and strings
\* outside the name alphabet included), joining the parts of the string in
\* order gives the string back: parts_join(parts(s)) = s.
C2_PartsRoundTrip ==
    (pc = "parts" /\ \A i \in 1..Len(arg) : arg[i] # "_") => ret.joined = arg

\* a two-part name with a device number and a character outside the alphabet
C2_Witness ==
    /\ pc = "parts"
    /\ arg = <<"A", "1", "P", "-">>
    /\ ret.parts = << <<"A", "1">>, <<"P">>, <<"-">> >>
    /\ ret.joined = arg

\* C5 as stated: for any base name b with at least one part,
\* is_parameter(b + 'Pa') is true and kind(b + 'Pa') = kind(b).
C5_AnyBase ==
    (pc = "kind" /\ parts(arg) # <<>>) =>
        /\ ret.pa_param
        /\ ~ret.raised /\ ~ret.pa_raised
        /\ ret.pa_kind = ret.kind

\* C5 amended: for any base name b with at least one part whose last part is
\* not 'Pa', is_parameter(b + 'Pa') is true and kind(b + 'Pa') = kind(b).
C5_NonParameterBase ==
    (pc = "kind" /\ parts(arg) # <<>> /\ parts(arg)[Len(parts(arg))] # Pa) =>
        /\ ret.pa_param
        /\ ~ret.raised /\ ~ret.pa_raised
        /\ ret.pa_kind = ret.kind

\* a base name of two parts: kind is its last part, with and without 'Pa'
C5_Witness ==
    /\ pc = "kind"
    /\ arg = <<"A", "1", "P">>
    /\ ret.pa_param
    /\ ret.kind = <<"P">>
    /\ ret.pa_kind = <<"P">>

\* nm matches [A-Z][A-Za-z0-9]*
IsCamelName(nm) ==
    /\ nm # <<>>
    /\ nm[1] \in Upper
    /\ \A i \in 1..Len(nm) : nm[i] \in Upper \cup Lower \cup Digit

\* C8: for every name matching [A-Z][A-Za-z0-9]*, converting to the
\* lowercase/underscore spelling and back gives the same name.
C8_CaseRoundTrip ==
    (pc = "case" /\ IsCamelName(arg)) => ret.back = arg

\* a name of two parts: lowered with an underscore between them, and back
C8_Witness ==
    /\ pc = "case"
    /\ arg = <<"A", "a", "1", "P">>
    /\ ret.lowered = <<"a", "a", "1", "_", "p">>
    /\ ret.back = arg

----------------------------------------------------------------------------
(* Claim about device and device_number (SpecDevice) *)

\* C9: for every prefix matching [A-Z][a-z]*, every n in 1..100 and every
\* suffix matching [A-Z_]*, the name prefix + str(n) + suffix has
\* device(name) = prefix + str(n) and device_number(name) = n.
C9_DeviceNumber ==
    pc = "device" =>
        /\ ret.device = arg.p \o str(arg.n)
        /\ ~ret.raised
        /\ ret.number = arg.n

\* Ge100P_: a three-digit number, a suffix with a capital and an underscore
C9_Witness ==
    /\ pc = "device"
    /\ ret.nm = <<"G", "e", "1", "0", "0", "P", "_">>
    /\ ret.device = <<"G", "e", "1", "0", "0">>
    /\ ret.number = 100

----------------------------------------------------------------------------
(* Claims about the matcher and the registry (SpecMatch, SpecRegistry) *)

\* C6: for every string t (text with '|', '*', '?' or '[' included),
\* match(t, t + 'x') is false.
C6_NeverMatchesWithX ==
    pc = "matched" => ~ret.t_tx

Range(q) == {q[i] : i \in 1..Len(q)}

DefaultQuery ==
    /\ pc = "queried"
    /\ arg = [only |-> Star, excludes |-> <<>>, device_pat |-> Star, onlybig |-> FALSE]

\* C7 as stated: the empty pattern matches no value, so a query with the
\* default empty exclude pattern excludes no registered name.
C7_EmptyMatchesNothing ==
    DefaultQuery =>
        /\ \A v \in named : ~match(v, arg.excludes)
        /\ ~ret.raised => Range(ret.names) = named

\* C7 amended: the empty pattern matches the empty value and no other value,
\* so a query with the default empty exclude pattern that returns excludes
\* the empty name and no other registered name.
C7_EmptyMatchesEmpty ==
    DefaultQuery =>
        /\ \A v \in named : match(v, arg.excludes) <=> v = <<>>
        /\ ~ret.raised => Range(ret.names) = named \ {<<>>}

\* the empty name and two others registered: the default query drops the first
C7_Witness ==
    /\ DefaultQuery
    /\ named = {<<>>, <<"A">>, <<"p">>}
    /\ ~ret.raised
    /\ ret.names = << <<"A">>, <<"p">> >>

----------------------------------------------------------------------------
(* Claim about expand_bnf (SpecExpand) *)

\* the '|'-separated alternatives of a right-hand side, the empty one included
Alternatives(rhs) == Range(split(rhs, <<"|">>))

\* the strings one step away from s: the first occurrence of some rule's
\* left-hand side replaced by one alternative of its right-hand side
StepsFrom(rules, s) ==
    UNION {{SubSeq(s, 1, find(s, l) - 1) \o c \o SubSeq(s, find(s, l) + Len(l), Len(s)) :
                c \in Alternatives(rules[l])} :
           l \in {k \in DOMAIN rules : find(s, k) # 0}}

\* the strings at most n steps away from a string of S
RECURSIVE ReachAll(_, _, _)
ReachAll(rules, S, n) ==
    LET T == S \cup UNION {StepsFrom(rules, s) : s \in S} IN
    IF n = 0 \/ T = S THEN S ELSE ReachAll(rules, T, n - 1)

\* the same, stepping only from strings that still hold a '<' or a '|'
RECURSIVE ReachUnfinished(_, _, _)
ReachUnfinished(rules, S, n) ==
    LET T == S \cup UNION {StepsFrom(rules, s) : s \in {x \in S : ~finished(x)}} IN
    IF n = 0 \/ T = S THEN S ELSE ReachUnfinished(rules, T, n - 1)

Ascending(q) == \A i \in 1..Len(q), j \in 1..Len(q) : i < j => str_lt(q[i], q[j])

\* C1 as stated: expand_bnf returns, ascending and without duplicates, the
\* strings without '<' and '|' reachable from start by steps that replace the
\* first occurrence of a rule's left-hand side by one of its alternatives.
C1_AllReachable ==
    pc = "expanded" =>
        /\ Ascending(ret)
        /\ Range(ret) = {u \in ReachAll(bnf_to_rules(arg.grammar), {arg.start}, MaxDepth) :
                            finished(u)}

\* C1 amended: the same, each step taken from a string that still holds a
\* '<' or a '|' (a string without them is a result and is not rewritten).
C1_ReachableFromUnfinished ==
    pc = "expanded" =>
        /\ Ascending(ret)
        /\ Range(ret) = {u \in ReachUnfinished(bnf_to_rules(arg.grammar), {arg.start}, MaxDepth) :
                            finished(u)}

\* <s> ::= <t><t> and <t> ::= a|b: four results, each nonterminal replaced
\* in turn
C1_Witness ==
    /\ pc = "expanded"
    /\ bnf_to_rules(arg.grammar) = (NT_s :> (NT_t \o NT_t)) @@ (NT_t :> <<"a", "|", "b">>)
    /\ arg.start = NT_s
    /\ ret = << <<"a", "a">>, <<"a", "b">>, <<"b", "a">>, <<"b", "b">> >>

----------------------------------------------------------------------------
(* Claims about the description merger and the run (SpecRead, SpecRun) *)

\* the name and rule fields of the row read_description reads next
NextNm == strip(with_long(rows[line + 1])[1])
NextRl == strip(with_long(rows[line + 1])[2])

\* the next row is a grammar rule row, after the header, whose rule field
\* starts with '|'
NextRowAppends ==
    /\ pc = "reading"
    /\ line >= 1
    /\ line < Len(rows)
    /\ Len(with_long(rows[line + 1])) = 5
    /\ ~is_comment(NextNm)
    /\ has_lt(NextNm)
    /\ NextRl # <<>>
    /\ NextRl[1] = "|"

\* C3 as stated: within one read_description, a row '|c' for a nonterminal
\* the table holds with right-hand side R (the empty one included) leaves it
\* with exactly the alternatives of R plus c.
C3_AppendKeepsAll ==
    [][(NextRowAppends /\ NextNm \in DOMAIN dg) =>
          Alternatives(dg'[NextNm]) =
              Alternatives(dg[NextNm]) \cup Alternatives(Tail(NextRl))]_vars

\* C3 amended: a row '|c' for a nonterminal the table holds with a non-empty
\* right-hand side R leaves it with exactly the alternatives of R plus c;
\* when R is empty the row leaves it with c alone.
C3_AppendKeepsNonEmpty ==
    [][(NextRowAppends /\ NextNm \in DOMAIN dg) =>
          Alternatives(dg'[NextNm]) =
              IF dg[NextNm] # <<>>
              THEN Alternatives(dg[NextNm]) \cup Alternatives(Tail(NextRl))
              ELSE Alternatives(Tail(NextRl))]_vars

\* <Names> set to A, then the row '|B' read: <Names> is A|B
C3_Witness ==
    /\ pc = "reading"
    /\ line = 3
    /\ rows[2] = Row_A
    /\ rows[3] = Row_OrB
    /\ dg[NT_Names] = <<"A", "|", "B">>

\* row r is a grammar rule row for X whose rule field starts with '|'
AppendRowFor(X, r) ==
    /\ Len(with_long(r)) = 5
    /\ strip(r[1]) = X
    /\ strip(r[2]) # <<>>
    /\ strip(r[2])[1] = "|"

\* every row of the file that names X is such a row, and there is one
OnlyAppended(X) ==
    /\ \E k \in 2..Len(rows) : AppendRowFor(X, rows[k])
    /\ \A k \in 2..Len(rows) :
          (Len(rows[k]) >= 2 /\ (strip(rows[k][1]) = X \/ strip(rows[k][2]) = X))
              => AppendRowFor(X, rows[k])

\* C4: in the merged table of a run, a definition that arrives prefixed with
\* '|' is appended to the definition the table holds, also when that came
\* from an earlier source: merging a description file whose rows for X are
\* all '|' rows keeps every alternative X had.
C4_PrefixedAppendsAcrossSources ==
    [][(pc = "reading" /\ pc' = "sources") =>
          \A X \in DOMAIN g :
              (g[X] # <<>> /\ OnlyAppended(X)) =>
                  Alternatives(g[X]) \subseteq Alternatives(g'[X])]_vars

\* C10: a decomposition failure on one expanded name (kind has no part to
\* return) is a local failure: the run is not aborted, and every other
\* expanded name that can be resolved is still resolved, registered and
\* written.  In "raised" the run was aborted at Head(todo).
C10_FailureIsLocal ==
    (pc = "raised" /\ kind_raises(Head(todo))) =>
        \A k \in 2..Len(todo) : units_raises(todo[k])

====
